---- MODULE Spec2Model ----
(***************************************************************************)
(* A model of scripts/domdef.py: the DomDef class (loader, offset          *)
(* transform, the six writers, the token substitution) and the command     *)
(* line driver that builds one DomDef and dispatches the writers.          *)
(*                                                                         *)
(* Text is modelled character by character: a string is a sequence of      *)
(* one-character strings, a file is a sequence of lines (each without its  *)
(* terminating newline).  Only the fixed template text of the writers      *)
(* whose output is never read back is carried as multi-character           *)
(* elements.  The semantics are those of Python 2, the interpreter the     *)
(* script is written for (dict.values() is a list, so numpy.ravel flattens *)
(* the [start, end] pairs of the domain table).                            *)
(* Files are assumed readable and writable: the IOError paths of open()    *)
(* are not part of the model.                                              *)
(***************************************************************************)
EXTENDS Integers, Sequences, FiniteSets, TLC

VARIABLES
    args,     \* positional command line arguments (paths)
    given,    \* options on the command line: dest -> <<>> or <<value>>
    opts,     \* options after parse_args: dest -> <<>> (None) or <<value>>
    disk,     \* content of the input file: a sequence of lines
    self,     \* the DomDef object under construction / bound to D
    lineno,   \* number of lines of the input consumed by load()
    pc,       \* position of the driver
    err,      \* the exception that ended the run, "" if none
    fs,       \* files written so far: path -> sequence of lines
    stdout,   \* messages printed by the writers
    ran,      \* history: the writers invoked so far, in order
    call,     \* arguments of a direct call of _transform, <<>> if none
    ret       \* what that call returned, <<>> before it returns

vars == <<args, given, opts, disk, self, lineno, pc, err, fs, stdout, ran, call, ret>>

(***************************************************************************)
(* Bounds of the model.                                                    *)
(***************************************************************************)
MaxLines == 3
MaxStr == 5

(***************************************************************************)
(* Python string primitives.                                               *)
(***************************************************************************)
Whitespace == {" ", "\t"}

Digits == <<"0", "1", "2", "3", "4", "5", "6", "7", "8", "9">>

RECURSIVE lstrip(_)
lstrip(s) ==
    IF s # <<>> /\ Head(s) \in Whitespace THEN lstrip(Tail(s)) ELSE s

RECURSIVE rstrip(_)
rstrip(s) ==
    IF s # <<>> /\ s[Len(s)] \in Whitespace
    THEN rstrip(SubSeq(s, 1, Len(s) - 1))
    ELSE s

strip(s) == lstrip(rstrip(s))

startswith(s, c) == s # <<>> /\ Head(s) = c

\* length of the leading run of non-whitespace characters
RECURSIVE TokenLen(_)
TokenLen(s) ==
    IF s = <<>> \/ Head(s) \in Whitespace THEN 0 ELSE 1 + TokenLen(Tail(s))

\* str.split() without arguments: runs of whitespace separate the fields
RECURSIVE split(_)
split(s) ==
    LET t == lstrip(s)
    IN  IF t = <<>> THEN <<>>
        ELSE LET n == TokenLen(t)
             IN  <<SubSeq(t, 1, n)>> \o split(SubSeq(t, n + 1, Len(t)))

\* sep.join(fields)
RECURSIVE join(_, _)
join(sep, fields) ==
    IF fields = <<>> THEN <<>>
    ELSE IF Len(fields) = 1 THEN fields[1]
    ELSE fields[1] \o sep \o join(sep, Tail(fields))

IsDigit(c) == \E i \in 1..10 : Digits[i] = c

DigitVal(c) == (CHOOSE i \in 1..10 : Digits[i] = c) - 1

RECURSIVE DigitsVal(_)
DigitsVal(s) ==
    IF s = <<>> THEN 0
    ELSE 10 * DigitsVal(SubSeq(s, 1, Len(s) - 1)) + DigitVal(s[Len(s)])

AllDigits(s) == s # <<>> /\ \A i \in 1..Len(s) : IsDigit(s[i])

\* whether int(tok) succeeds: an optional sign followed by decimal digits
IsIntLiteral(tok) ==
    IF tok # <<>> /\ Head(tok) \in {"-", "+"}
    THEN AllDigits(Tail(tok))
    ELSE AllDigits(tok)

\* int(tok) for a literal that parses
int(tok) ==
    IF Head(tok) = "-" THEN 0 - DigitsVal(Tail(tok))
    ELSE IF Head(tok) = "+" THEN DigitsVal(Tail(tok))
    ELSE DigitsVal(tok)

RECURSIVE NatToChars(_)
NatToChars(n) ==
    IF n < 10 THEN <<Digits[n + 1]>>
    ELSE NatToChars(n \div 10) \o <<Digits[(n % 10) + 1]>>

\* "%d" % n
FmtD(n) == IF n < 0 THEN <<"-">> \o NatToChars(0 - n) ELSE NatToChars(n)

RECURSIVE Spaces(_)
Spaces(n) == IF n <= 0 THEN <<>> ELSE <<" ">> \o Spaces(n - 1)

\* variant of FmtDW: the number written with a float format ("%5.1f")
FmtDW_float(n, w) == Spaces(w - Len(FmtD(n)) - 2) \o FmtD(n) \o <<".", "0">>

\* "%<w>d" % n: right-justified in a field of at least w characters
FmtDW(n, w) == Spaces(w - Len(FmtD(n))) \o FmtD(n)

\* "%-<w>s" % s: left-justified in a field of at least w characters
FmtSL(s, w) == s \o Spaces(w - Len(s))

\* "%r" % s for a str without quotes, backslashes or control characters
repr(s) == <<"'">> \o s \o <<"'">>

(***************************************************************************)
(* collections.OrderedDict: keys in first-insertion order and the values.  *)
(***************************************************************************)
OrderedDict == [keys |-> <<>>, val |-> [k \in {} |-> <<>>]]

\* variant of SetItem: d.setdefault(k, v), an existing key keeps its value
SetItem_setdefault(d, k, v) ==
    IF k \in DOMAIN d.val THEN d
    ELSE [keys |-> Append(d.keys, k),
          val  |-> [x \in (DOMAIN d.val) \cup {k} |-> IF x = k THEN v ELSE d.val[x]]]

\* d[k] = v: a new key goes to the end, an existing key keeps its place
SetItem(d, k, v) ==
    [keys |-> IF k \in DOMAIN d.val THEN d.keys ELSE Append(d.keys, k),
     val  |-> [x \in (DOMAIN d.val) \cup {k} |-> IF x = k THEN v ELSE d.val[x]]]

\* d.values(): the values in key order
values(d) == [i \in 1..Len(d.keys) |-> d.val[d.keys[i]]]

\* d.items()
items(d) == [i \in 1..Len(d.keys) |-> <<d.keys[i], d.val[d.keys[i]]>>]

(***************************************************************************)
(* DomDef                                                                  *)
(***************************************************************************)
\* variant of transform: the clamp tests x < 0
transform_below_zero(obj, resid) ==
    LET x == resid + obj.offset
    IN  IF x < 0 THEN 1 ELSE x

\* DomDef.transform: the resid with the offset applied, at least 1
transform(obj, resid) ==
    LET x == resid + obj.offset
    IN  IF x < 1 THEN 1 ELSE x

\* DomDef.__init__ up to the call of load(); first and last are not set yet
\* (<<>> stands for the missing attribute)
NewDomDef(filename, offset) ==
    [filename     |-> filename,
     domains      |-> OrderedDict,
     compounds    |-> OrderedDict,
     domain_order |-> <<>>,
     offset       |-> offset,
     first        |-> <<>>,
     last         |-> <<>>]

\* variant of load_line: the first three fields are taken, further ones ignored
load_line_lenient(obj, rawline) ==
    LET line   == strip(rawline)
        fields == split(line)
    IN  IF startswith(line, "#") \/ Len(line) = 0
        THEN [err |-> "", obj |-> obj]
        ELSE IF startswith(line, "@")
        THEN [err |-> "",
              obj |-> [obj EXCEPT !.compounds =
                         SetItem(@, Tail(fields[1]), join(<<" ">>, Tail(fields)))]]
        ELSE IF Len(fields) < 3
        THEN [err |-> "ValueError", obj |-> obj]
        ELSE IF ~IsIntLiteral(fields[2]) \/ ~IsIntLiteral(fields[3])
        THEN [err |-> "ValueError", obj |-> obj]
        ELSE [err |-> "",
              obj |-> [obj EXCEPT
                         !.domains = SetItem(@, fields[1],
                                             <<transform(obj, int(fields[2])),
                                               transform(obj, int(fields[3]))>>),
                         !.domain_order = Append(@, fields[1])]]

\* the body of the loop of load() for one line of the file:
\* the object after the line, or the exception the line raises
load_line(obj, rawline) ==
    LET line   == strip(rawline)
        fields == split(line)
    IN  IF startswith(line, "#") \/ Len(line) = 0
        THEN [err |-> "", obj |-> obj]
        ELSE IF startswith(line, "@")
        THEN [err |-> "",
              obj |-> [obj EXCEPT !.compounds =
                         SetItem(@, Tail(fields[1]), join(<<" ">>, Tail(fields)))]]
        ELSE IF Len(fields) # 3
        THEN [err |-> "ValueError", obj |-> obj]
        ELSE IF ~IsIntLiteral(fields[2]) \/ ~IsIntLiteral(fields[3])
        THEN [err |-> "ValueError", obj |-> obj]
        ELSE [err |-> "",
              obj |-> [obj EXCEPT
                         !.domains = SetItem(@, fields[1],
                                             <<transform(obj, int(fields[2])),
                                               transform(obj, int(fields[3]))>>),
                         !.domain_order = Append(@, fields[1])]]

\* variant of ravel: only the first column (the starts)
ravel_first_column(pairs) == [i \in 1..Len(pairs) |-> pairs[i][1]]

\* numpy.ravel(self.domains.values()): the starts and ends, flattened
RECURSIVE ravel(_)
ravel(pairs) ==
    IF pairs = <<>> THEN <<>> ELSE Head(pairs) \o ravel(Tail(pairs))

\* insertion of x into an ascending sequence
RECURSIVE Insert(_, _)
Insert(x, s) ==
    IF s = <<>> THEN <<x>>
    ELSE IF x <= Head(s) THEN <<x>> \o s
    ELSE <<Head(s)>> \o Insert(x, Tail(s))

\* numpy.sort: ascending
RECURSIVE sort(_)
sort(s) == IF s = <<>> THEN <<>> ELSE Insert(Head(s), sort(Tail(s)))

\* the end of load(): first and last from the sorted resids;
\* resids[0] of an empty array raises IndexError
load_end(obj) ==
    LET resids == sort(ravel(values(obj.domains)))
    IN  IF resids = <<>>
        THEN [err |-> "IndexError", obj |-> obj]
        ELSE [err |-> "",
              obj |-> [obj EXCEPT !.first = <<resids[1]>>,
                                  !.last  = <<resids[Len(resids)]>>]]

\* load() over the lines from position i on
RECURSIVE load_from(_, _, _)
load_from(obj, lines, i) ==
    IF i > Len(lines) THEN load_end(obj)
    ELSE LET r == load_line(obj, lines[i])
         IN  IF r.err # "" THEN r ELSE load_from(r.obj, lines, i + 1)

\* DomDef(filename, offset) on a file with the given lines
DomDef(filename, lines, offset) ==
    load_from(NewDomDef(filename, offset), lines, 1)

\* DomDef._ordered_domains: (name, [start, end]) along domain_order
_ordered_domains(obj) ==
    [i \in 1..Len(obj.domain_order) |->
        <<obj.domain_order[i], obj.domains.val[obj.domain_order[i]]>>]

\* variant of replace: only the first occurrence (str.replace(old, new, 1))
RECURSIVE replace_first(_, _, _)
replace_first(s, old, new) ==
    IF s = <<>> THEN <<>>
    ELSE IF Head(s) = old THEN new \o Tail(s)
    ELSE <<Head(s)>> \o replace_first(Tail(s), old, new)

\* str.replace(old, new) for a one-character old
RECURSIVE replace(_, _, _)
replace(s, old, new) ==
    IF s = <<>> THEN <<>>
    ELSE (IF Head(s) = old THEN new ELSE <<Head(s)>>) \o replace(Tail(s), old, new)

\* DomDef._transform: replace tokens |&! --> or,and,not
_transform(mode, s) ==
    IF mode = "charmm"
    THEN [err |-> "",
          val |-> replace(replace(replace(s, "|", <<" ",".","o","r","."," ">>),
                                  "&", <<" ",".","a","n","d","."," ">>),
                          "!", <<" ",".","n","o","t","."," ">>)]
    ELSE IF mode = "vmd"
    THEN [err |-> "",
          val |-> replace(replace(replace(s, "|", <<" ","o","r"," ">>),
                                  "&", <<" ","a","n","d"," ">>),
                          "!", <<" ","n","o","t"," ">>)]
    ELSE IF mode = "pymol"
    THEN [err |-> "",
          val |-> replace(replace(replace(s, "|", <<" ","o","r"," ">>),
                                  "&", <<" ","a","n","d"," ">>),
                          "!", <<" ","n","o","t"," ">>)]
    ELSE [err |-> "ValueError", val |-> <<>>]

IdLine ==
    <<"#"," ","$","I","d",":"," ","d","o","m","d","e","f",".","p","y"," ","1","1","5","5"," ","2","0","1","0","-","0","5","-","1","7"," ","1","7",":","1","5",":","2","6","Z"," ","o","l","i","v","e","r"," ","$">>

\* DomDef.write: the model as a domdef input file
write(obj, filename) ==
    LET header ==
            << IdLine,
               <<"#"," ","T","h","i","s"," ","f","i","l","e"," ","i","s"," ","i","n"," ","a"," ","f","o","r","m","a","t"," ","s","u","i","t","a","b","l","e"," ","f","o","r"," ","s","c","r","i","p","t","s","/","d","o","m","d","e","f",".","p","y">>,
               <<"#"," ","i","n","p","u","t"," ","="," ">> \o repr(obj.filename),
               <<"#"," ","o","f","f","s","e","t"," ","="," ">> \o FmtD(obj.offset),
               <<>>,
               <<"#"," ","n","a","m","e"," "," "," "," "," "," ","s","t","a","r","t"," "," "," "," ","e","n","d">> >>
        od == _ordered_domains(obj)
        doms == [i \in 1..Len(od) |->
                    FmtSL(od[i][1], 11) \o <<" ">> \o FmtDW(od[i][2][1], 5)
                      \o <<" ", " ">> \o FmtDW(od[i][2][2], 5)]
        cs == items(obj.compounds)
        comps == [i \in 1..Len(cs) |->
                    <<"@">> \o FmtSL(cs[i][1], 11) \o <<" ", " ">> \o cs[i][2]]
    IN  [obj |-> obj,
         out |-> header \o doms
                   \o << <<"#"," ","c","o","m","p","o","u","n","d"," ","s","t","a","t","e","m","e","n","t","s">> >>
                   \o comps,
         msg |-> <<>>]

\* DomDef._write_vmd_addrep_domains with the default keyword arguments
_write_vmd_addrep_domains(obj) ==
    << <<"# functions to display representations">>,
       <<"puts {usage: addrep_domains [colorID [material [rep]]]}">>,
       <<"proc addrep_domains {{color ">> \o FmtD(6) \o <<"} {material ", "AOChalky",
         "} {representation ", "cartoon", "}} {">>,
       <<"  mol color ColorID $color">>,
       <<"  mol material $material">>,
       <<"  mol rep $representation">>,
       <<"  set selections \"">> \o join(<<" ">>, obj.domain_order) \o <<"\"">>,
       <<"  foreach sel $selections {">>,
       <<"    mol selection $sel">>,
       <<"    mol addrep top">>,
       <<"  }">>,
       <<"}">> >>

\* DomDef.write_vmd
write_vmd(obj, filename) ==
    LET od == _ordered_domains(obj)
        doms == [i \in 1..Len(od) |->
                    <<"atomselect macro ">> \o od[i][1] \o <<" {resid ">>
                      \o FmtD(od[i][2][1]) \o <<" to ">> \o FmtD(od[i][2][2]) \o <<"}">>]
        cs == items(obj.compounds)
        comps == [i \in 1..Len(cs) |->
                    <<"atomselect macro ">> \o cs[i][1] \o <<" {">>
                      \o _transform("vmd", cs[i][2]).val \o <<"}">>]
    IN  [obj |-> obj,
         out |-> << <<"# $Id$">>,
                    <<"# domain defs from \"">> \o obj.filename \o <<"\"">>,
                    <<"# offset = ">> \o FmtD(obj.offset) >>
                   \o doms \o << <<"# compound statements">> >> \o comps
                   \o _write_vmd_addrep_domains(obj),
         msg |-> << <<"# Load macros with 'source ">> \o filename \o <<"' in VMD">> >>]

\* variant of write_bendix: the order sequence is consumed while iterating
write_bendix_consuming(obj, filename) ==
    LET od == _ordered_domains(obj)
        resids == ravel([i \in 1..Len(od) |->
                            <<FmtD(od[i][2][1]), FmtD(od[i][2][2])>>])
    IN  [obj |-> [obj EXCEPT !.domain_order = <<>>],
         out |-> << join(<<" ">>, resids) >>,
         msg |-> << <<"# Wrote domains to Bendix helix file ">> \o repr(filename) >>]

\* DomDef.write_bendix
write_bendix(obj, filename) ==
    LET od == _ordered_domains(obj)
        resids == ravel([i \in 1..Len(od) |->
                            <<FmtD(od[i][2][1]), FmtD(od[i][2][2])>>])
    IN  [obj |-> obj,
         out |-> << join(<<" ">>, resids) >>,
         msg |-> << <<"# Wrote domains to Bendix helix file ">> \o repr(filename) >>]

\* DomDef.write_pymol
write_pymol(obj, filename) ==
    LET od == _ordered_domains(obj)
        doms == [i \in 1..Len(od) |->
                    <<"select ">> \o od[i][1] \o <<", polymer and resi ">>
                      \o FmtD(od[i][2][1]) \o <<"-">> \o FmtD(od[i][2][2])]
        cs == items(obj.compounds)
        comps == [i \in 1..Len(cs) |->
                    <<"select ">> \o cs[i][1] \o <<", ">>
                      \o _transform("pymol", cs[i][2]).val]
    IN  [obj |-> obj,
         out |-> << <<"# $Id$">>,
                    <<"# domain defs from \"">> \o obj.filename \o <<"\"">>,
                    <<"# offset = ">> \o FmtD(obj.offset) >>
                   \o doms \o << <<"# compound statements">> >> \o comps,
         msg |-> << <<"# Load selection with '@">> \o filename \o <<"' in PyMOL">> >>]

\* DomDef.write_charmm
write_charmm(obj, filename) ==
    LET od == _ordered_domains(obj)
        doms == [i \in 1..Len(od) |->
                    <<"define ">> \o FmtSL(od[i][1], 8) \o <<" select resid ">>
                      \o FmtDW(od[i][2][1], 3) \o <<" : ">> \o FmtDW(od[i][2][2], 3)
                      \o <<"  end">>]
        cs == items(obj.compounds)
        comps == [i \in 1..Len(cs) |->
                    <<"define ">> \o FmtSL(cs[i][1], 8) \o <<" select ">>
                      \o _transform("charmm", cs[i][2]).val \o <<"  end">>]
    IN  [obj |-> obj,
         out |-> << <<"! $Id$">>,
                    <<"! domain defs from \"">> \o obj.filename \o <<"\"">>,
                    <<"! offset = ">> \o FmtD(obj.offset) >>
                   \o doms \o << <<"! compound statements">> >> \o comps,
         msg |-> << <<"# Add SELECTION definitons to Charmm script with 'stream \"">>
                      \o filename \o <<"\"'">> >>]

\* "%g" of the y values write_xvg uses, given in halves: 0, 0.5, -0.5
FmtG(halves) ==
    IF halves = 0 THEN <<"0">>
    ELSE IF halves = 1 THEN <<"0", ".", "5">>
    ELSE <<"-", "0", ".", "5">>

\* one data line of the graph: "%5d  %g"
XvgPoint(x, halves) == FmtDW(x, 5) \o <<" ", " ">> \o FmtG(halves)

\* variant of xvg_loop: a decreasing start is skipped (continue, not break)
RECURSIVE xvg_loop_continue(_, _, _)
xvg_loop_continue(od, last_start_resid, yval) ==
    IF od = <<>> THEN <<>>
    ELSE LET start_resid == Head(od)[2][1]
             end_resid   == Head(od)[2][2]
         IN  IF start_resid < last_start_resid
             THEN xvg_loop_continue(Tail(od), last_start_resid, yval)
             ELSE << XvgPoint(start_resid, 0), XvgPoint(start_resid, yval),
                     XvgPoint(end_resid, yval), XvgPoint(end_resid, 0) >>
                    \o xvg_loop_continue(Tail(od), start_resid, yval)

\* the loop of write_xvg._write over the remaining domains; it breaks at the
\* first start below the start of the domain written before
RECURSIVE xvg_loop(_, _, _)
xvg_loop(od, last_start_resid, yval) ==
    IF od = <<>> THEN <<>>
    ELSE LET start_resid == Head(od)[2][1]
             end_resid   == Head(od)[2][2]
         IN  IF start_resid < last_start_resid THEN <<>>
             ELSE << XvgPoint(start_resid, 0), XvgPoint(start_resid, yval),
                     XvgPoint(end_resid, yval), XvgPoint(end_resid, 0) >>
                    \o xvg_loop(Tail(od), start_resid, yval)

\* write_xvg._write(yval)
xvg_write(obj, yval) ==
    << XvgPoint(obj.first[1], 0) >>
      \o xvg_loop(_ordered_domains(obj), obj.first[1], yval)
      \o << XvgPoint(obj.last[1], 0) >>

\* DomDef.write_xvg: the secondary structure graph
write_xvg(obj, filename) ==
    [obj |-> obj,
     out |-> << IdLine,
                <<"#"," ","i","n","p","u","t"," ","="," ">> \o repr(obj.filename),
                <<"#"," ","o","f","f","s","e","t"," ","="," ">> \o FmtD(obj.offset) >>
               \o xvg_write(obj, 1) \o << <<"&">> >> \o xvg_write(obj, -1),
     msg |-> << <<"# Wrote xvg file with secondary structure graph">> >>]

(***************************************************************************)
(* The command line driver.                                                *)
(***************************************************************************)
OutDests ==
    {"filename", "vmdfilename", "bendixfilename", "pymolfilename",
     "charmmfilename", "xvgfilename"}

Dests == OutDests \cup {"offset"}

DevStdout == <<"/","d","e","v","/","s","t","d","o","u","t">>

\* variant of Defaults: no default for the output file
Defaults_no_stdout ==
    [d \in Dests |-> IF d = "offset" THEN << <<"0">> >> ELSE <<>>]

\* parser.set_defaults(offset=0, filename='/dev/stdout'); every other
\* destination defaults to None
Defaults ==
    [d \in Dests |->
        IF d = "filename" THEN <<DevStdout>>
        ELSE IF d = "offset" THEN << <<"0">> >>
        ELSE <<>>]

\* parser.parse_args(): a given option replaces the default
parse_args(g) == [d \in Dests |-> IF g[d] # <<>> THEN g[d] ELSE Defaults[d]]

\* truth value of an option: None and the empty string are false
Truthy(o) == o # <<>> /\ o[1] # <<>>

\* open(path, 'w') ... close(): the file now holds the lines
WriteFile(files, path, lines) ==
    [p \in (DOMAIN files) \cup {path} |-> IF p = path THEN lines ELSE files[p]]

\* "if opts.<dest>: D.<writer>(opts.<dest>)" for the result r of the writer
Dispatch(dest, r, next) ==
    /\ IF Truthy(opts[dest])
       THEN /\ self' = r.obj
            /\ fs' = WriteFile(fs, opts[dest][1], r.out)
            /\ stdout' = stdout \o r.msg
            /\ ran' = Append(ran, dest)
       ELSE UNCHANGED <<self, fs, stdout, ran>>
    /\ pc' = next
    /\ UNCHANGED <<args, given, opts, disk, lineno, err, call, ret>>

\* parse_args, the check for the positional argument, and DomDef.__init__
\* up to the call of load()
Start ==
    /\ pc = "start"
    /\ LET o == parse_args(given)
       IN  /\ opts' = o
           /\ IF args = <<>>
              THEN /\ pc' = "error"
                   /\ err' = "ValueError"
                   /\ self' = self
              ELSE IF ~IsIntLiteral(o["offset"][1])
              THEN /\ pc' = "error"
                   /\ err' = "ValueError"
                   /\ self' = self
              ELSE /\ pc' = "load"
                   /\ err' = err
                   /\ self' = NewDomDef(args[1], int(o["offset"][1]))
    /\ UNCHANGED <<args, given, disk, lineno, fs, stdout, ran, call, ret>>

\* one iteration of "for line in domdef"
LoadLine ==
    /\ pc = "load"
    /\ lineno < Len(disk)
    /\ LET r == load_line(self, disk[lineno + 1])
       IN  IF r.err # ""
           THEN /\ pc' = "error"
                /\ err' = r.err
                /\ UNCHANGED <<self, lineno>>
           ELSE /\ self' = r.obj
                /\ lineno' = lineno + 1
                /\ UNCHANGED <<pc, err>>
    /\ UNCHANGED <<args, given, opts, disk, fs, stdout, ran, call, ret>>

\* the file is exhausted: first and last are computed and __init__ returns
LoadEnd ==
    /\ pc = "load"
    /\ lineno = Len(disk)
    /\ LET r == load_end(self)
       IN  IF r.err # ""
           THEN /\ pc' = "error"
                /\ err' = r.err
                /\ self' = self
           ELSE /\ pc' = "write"
                /\ err' = err
                /\ self' = r.obj
    /\ UNCHANGED <<args, given, opts, disk, lineno, fs, stdout, ran, call, ret>>

DoWrite ==
    /\ pc = "write"
    /\ Dispatch("filename", write(self, opts["filename"][1]), "write_vmd")

DoWriteVmd ==
    /\ pc = "write_vmd"
    /\ Dispatch("vmdfilename", write_vmd(self, opts["vmdfilename"][1]), "write_bendix")

DoWriteBendix ==
    /\ pc = "write_bendix"
    /\ Dispatch("bendixfilename", write_bendix(self, opts["bendixfilename"][1]), "write_pymol")

DoWritePymol ==
    /\ pc = "write_pymol"
    /\ Dispatch("pymolfilename", write_pymol(self, opts["pymolfilename"][1]), "write_charmm")

DoWriteCharmm ==
    /\ pc = "write_charmm"
    /\ Dispatch("charmmfilename", write_charmm(self, opts["charmmfilename"][1]), "write_xvg")

DoWriteXvg ==
    /\ pc = "write_xvg"
    /\ Dispatch("xvgfilename", write_xvg(self, opts["xvgfilename"][1]), "done")

Next ==
    \/ Start
    \/ LoadLine
    \/ LoadEnd
    \/ DoWrite
    \/ DoWriteVmd
    \/ DoWriteBendix
    \/ DoWritePymol
    \/ DoWriteCharmm
    \/ DoWriteXvg

(***************************************************************************)
(* Inputs.                                                                 *)
(***************************************************************************)
InputPath == <<"i","n",".","d","d">>

OutPath ==
    [d \in OutDests |->
        CASE d = "filename"       -> <<"o",".","d","d">>
          [] d = "vmdfilename"    -> <<"o",".","t","c","l">>
          [] d = "bendixfilename" -> <<"o",".","b","x">>
          [] d = "pymolfilename"  -> <<"o",".","p","m","l">>
          [] d = "charmmfilename" -> <<"o",".","s","t","r">>
          [] d = "xvgfilename"    -> <<"o",".","x","v","g">>]

\* lines load() accepts
GoodLines ==
    { <<"A"," ","1","0"," ","2","0">>,
      <<" "," ","B"," "," ","2","5","\t","3","0"," ">>,
      <<"A"," ","1"," ","5">>,
      <<"C"," ","-","3"," ","+","7">>,
      <<"#"," ","c">>,
      <<" ">>,
      <<"@","X"," ","A","|","B">>,
      <<"@","X"," "," ","!","A"," ","&"," "," ","(","B",")">>,
      <<"@"," ","A">> }

\* lines load() fails on: two fields, four fields, a start that is no integer
BadLines ==
    { <<"A"," ","1","0">>,
      <<"B"," ","1"," ","2"," ","3">>,
      <<"B"," ","x"," ","2">> }

LineSet == GoodLines \cup BadLines

Files == UNION {[1..k -> LineSet] : k \in 0..MaxLines}

\* -n absent, -n -100, -n 3, and a value int() rejects
OffsetArgs == { <<>>, << <<"-","1","0","0">> >>, << <<"3">> >>, << <<"x">> >> }

\* every output option given with its own path
AllGiven(off) == [d \in Dests |-> IF d = "offset" THEN off ELSE <<OutPath[d]>>]

InitCommon ==
    /\ opts = [d \in Dests |-> <<>>]
    /\ self = <<>>
    /\ lineno = 0
    /\ pc = "start"
    /\ err = ""
    /\ fs = [p \in {} |-> <<>>]
    /\ stdout = <<>>
    /\ ran = <<>>

\* any input file of up to MaxLines lines, every output requested
Init ==
    /\ args = <<InputPath>>
    /\ disk \in Files
    /\ \E off \in OffsetArgs : given = AllGiven(off)
    /\ InitCommon
    /\ call = <<>>
    /\ ret = <<>>

Spec == Init /\ [][Next]_vars

\* a few input files, every combination of output options (absent, given
\* with an empty name, given with a path), with and without the positional
\* argument
DriverFiles ==
    { << <<"A"," ","1","0"," ","2","0">>,
         <<" "," ","B"," "," ","2","5","\t","3","0"," ">>,
         <<"@","X"," ","A","|","B">> >>,
      << <<"A"," ","1","0"," ","2","0">>, <<"A"," ","1","0">> >>,
      << <<"@","X"," ","A","|","B">>, <<"#"," ","c">> >> }

GivenSets ==
    { g \in [Dests -> {<<>>, << <<>> >>} \cup {<<OutPath[d]>> : d \in OutDests}] :
        /\ g["offset"] = <<>>
        /\ \A d \in OutDests : g[d] \in {<<>>, << <<>> >>, <<OutPath[d]>>} }

InitDriver ==
    /\ \/ args = <<InputPath>> /\ disk \in DriverFiles
       \/ args = <<>> /\ disk = <<>>
    /\ given \in GivenSets
    /\ InitCommon
    /\ call = <<>>
    /\ ret = <<>>

SpecDriver == InitDriver /\ [][Next]_vars

(***************************************************************************)
(* Direct calls of DomDef._transform(mode, s).                             *)
(***************************************************************************)
Alphabet == {"A", "B", " ", "|", "&", "!"}

Modes == {"vmd", "pymol", "charmm", "gromacs", ""}

Strings == UNION {[1..k -> Alphabet] : k \in 0..MaxStr}

InitTransform ==
    /\ args = <<>>
    /\ given = [d \in Dests |-> <<>>]
    /\ disk = <<>>
    /\ InitCommon
    /\ call \in [mode : Modes, s : Strings]
    /\ ret = <<>>

CallTransform ==
    /\ call # <<>>
    /\ ret = <<>>
    /\ ret' = <<_transform(call.mode, call.s)>>
    /\ UNCHANGED <<args, given, opts, disk, self, lineno, pc, err, fs, stdout, ran, call>>

NextTransform == CallTransform

SpecTransform == InitTransform /\ [][NextTransform]_vars

(***************************************************************************)
(* Vocabulary of the properties.  What each input line means is stated     *)
(* here by enumeration, independently of strip/split/int.                  *)
(***************************************************************************)
Constructed == DOMAIN self # {}

AfterLoad ==
    pc \in {"write", "write_vmd", "write_bendix", "write_pymol",
            "write_charmm", "write_xvg", "done"}

SimpleLines ==
    { [line |-> <<"A"," ","1","0"," ","2","0">>,
       name |-> <<"A">>, start |-> 10, end |-> 20],
      [line |-> <<" "," ","B"," "," ","2","5","\t","3","0"," ">>,
       name |-> <<"B">>, start |-> 25, end |-> 30],
      [line |-> <<"A"," ","1"," ","5">>,
       name |-> <<"A">>, start |-> 1, end |-> 5],
      [line |-> <<"C"," ","-","3"," ","+","7">>,
       name |-> <<"C">>, start |-> -3, end |-> 7] }

CompoundLines ==
    { [line |-> <<"@","X"," ","A","|","B">>,
       name |-> <<"X">>, definition |-> <<"A","|","B">>],
      [line |-> <<"@","X"," "," ","!","A"," ","&"," "," ","(","B",")">>,
       name |-> <<"X">>, definition |-> <<"!","A"," ","&"," ","(","B",")">>],
      [line |-> <<"@"," ","A">>,
       name |-> <<>>, definition |-> <<"A">>] }

IsSimpleLine(l) == \E e \in SimpleLines : e.line = l

IsCompoundLine(l) == \E e \in CompoundLines : e.line = l

SimpleEntry(l) == CHOOSE e \in SimpleLines : e.line = l

CompoundEntry(l) == CHOOSE e \in CompoundLines : e.line = l

\* the simple lines among the lines load() has consumed, in file order
SimpleConsumed == SelectSeq(SubSeq(disk, 1, lineno), IsSimpleLine)

Max1(x) == IF x >= 1 THEN x ELSE 1

\* all start and end values currently in the domain table
TableResids ==
    UNION {{self.domains.val[k][1], self.domains.val[k][2]} :
             k \in DOMAIN self.domains.val}

\* number of whitespace-separated fields of a line
FieldCount(l) ==
    Cardinality({i \in 1..Len(l) :
                   l[i] \notin Whitespace /\ (i = 1 \/ l[i - 1] \in Whitespace)})

\* first character of the line that is not whitespace, "" if there is none
FirstChar(l) ==
    LET idx == {i \in 1..Len(l) : l[i] \notin Whitespace}
    IN  IF idx = {} THEN ""
        ELSE l[CHOOSE i \in idx : \A j \in idx : i <= j]

\* a non-empty, non-comment, non-compound line without exactly three fields
Malformed(l) ==
    FieldCount(l) > 0 /\ FirstChar(l) \notin {"#", "@"} /\ FieldCount(l) # 3

\* no domain name and no compound name is defined by two lines of the file
NoRedefinition ==
    \A i, j \in 1..Len(disk) :
        i < j =>
          /\ ~(IsSimpleLine(disk[i]) /\ IsSimpleLine(disk[j])
                 /\ SimpleEntry(disk[i]).name = SimpleEntry(disk[j]).name)
          /\ ~(IsCompoundLine(disk[i]) /\ IsCompoundLine(disk[j])
                 /\ CompoundEntry(disk[i]).name = CompoundEntry(disk[j]).name)

RECURSIVE Concat(_)
Concat(ss) == IF ss = <<>> THEN <<>> ELSE Head(ss) \o Concat(Tail(ss))

(***************************************************************************)
(* C1: transform(resid) is max(1, resid + offset) for every resid, so      *)
(* every start and end in the domain table, and first and last once they   *)
(* are set, is at least 1; transform(1) is 1 under offset -100 and         *)
(* transform(5) is 8 under offset 3.                                       *)
(***************************************************************************)
C1_TransformIsMaxOne ==
    Constructed =>
      /\ \A r \in {-200, -101, -100, -99, -3, -2, -1, 0, 1, 2, 5, 99, 100, 101} :
            LET t == transform(self, r)
            IN  /\ t >= 1
                /\ t >= r + self.offset
                /\ t = 1 \/ t = r + self.offset
      /\ \A v \in TableResids : v >= 1
      /\ self.first # <<>> => self.first[1] >= 1 /\ self.last[1] >= 1
      /\ self.offset = -100 => transform(self, 1) = 1
      /\ self.offset = 3 => transform(self, 5) = 8

\* a load under offset -100 has finished, with values clamped to 1
C1_Witness ==
    /\ pc = "done"
    /\ self.offset = -100
    /\ self.first = <<1>>
    /\ \E i \in 1..Len(disk) : disk[i] = <<"A"," ","1","0"," ","2","0">>

(***************************************************************************)
(* C2: for a file without redefined names, reloading what write() wrote    *)
(* (with offset 0) gives the domain table, the order sequence and the      *)
(* compound table of the first load, in order and values.                  *)
(***************************************************************************)
C2_RoundTrip ==
    (Constructed /\ OutPath["filename"] \in DOMAIN fs /\ NoRedefinition) =>
      LET r == DomDef(OutPath["filename"], fs[OutPath["filename"]], 0)
      IN  /\ r.err = ""
          /\ r.obj.domains = self.domains
          /\ r.obj.domain_order = self.domain_order
          /\ r.obj.compounds = self.compounds

\* written after a load with a non-zero offset of two domains and a compound
C2_Witness ==
    /\ pc = "done"
    /\ OutPath["filename"] \in DOMAIN fs
    /\ NoRedefinition
    /\ self.offset = 3
    /\ Len(self.domain_order) = 2
    /\ Len(self.compounds.keys) = 1

(***************************************************************************)
(* C3: after load() has consumed a sequence of simple lines the order      *)
(* sequence is the names of those lines in file order, the table holds     *)
(* exactly those names, and each name maps to the transformed (start, end) *)
(* of the last line that defined it; "A 10 20", "B 25 30" with offset 0    *)
(* give {A:(10,20), B:(25,30)} and [A, B].                                 *)
(***************************************************************************)
C3_LastDefinitionWins ==
    Constructed =>
      LET sc == SimpleConsumed
          n  == Len(sc)
      IN  /\ self.domain_order = [i \in 1..n |-> SimpleEntry(sc[i]).name]
          /\ DOMAIN self.domains.val = {SimpleEntry(sc[i]).name : i \in 1..n}
          /\ \A i \in 1..n :
                (\A j \in (i + 1)..n :
                    SimpleEntry(sc[j]).name # SimpleEntry(sc[i]).name)
                => self.domains.val[SimpleEntry(sc[i]).name]
                     = << Max1(SimpleEntry(sc[i]).start + self.offset),
                          Max1(SimpleEntry(sc[i]).end + self.offset) >>
          /\ \A i \in 1..Len(self.domain_order) :
                self.domain_order[i] \in DOMAIN self.domains.val
          /\ ( /\ disk = << <<"A"," ","1","0"," ","2","0">>,
                            <<" "," ","B"," "," ","2","5","\t","3","0"," ">> >>
               /\ lineno = 2
               /\ self.offset = 0 )
             => /\ self.domains.val = (<<"A">> :> <<10, 20>> @@ <<"B">> :> <<25, 30>>)
                /\ self.domain_order = << <<"A">>, <<"B">> >>

\* A is defined, then B, then A again with other values
C3_Witness ==
    /\ pc = "done"
    /\ self.offset = 0
    /\ self.domain_order = << <<"A">>, <<"B">>, <<"A">> >>
    /\ self.domains.val[<<"A">>] = <<1, 5>>

(***************************************************************************)
(* C4: when load() finishes, first is the minimum and last the maximum of  *)
(* the values currently in the table (overwritten values do not count);    *)
(* a file that defines no domain makes load() fail, no model is produced.  *)
(***************************************************************************)
C4_FirstLastExtrema ==
    /\ AfterLoad =>
         /\ self.first # <<>> /\ self.last # <<>>
         /\ self.first[1] \in TableResids
         /\ self.last[1] \in TableResids
         /\ \A v \in TableResids : self.first[1] <= v /\ v <= self.last[1]
    /\ (\A i \in 1..Len(disk) : ~IsSimpleLine(disk[i])) => ~AfterLoad
    /\ (Constructed /\ pc = "error" /\ lineno = Len(disk)) =>
         /\ err = "IndexError"
         /\ DOMAIN self.domains.val = {}
         /\ DOMAIN fs = {}

\* the first definition of A (1, 5) is overwritten by (10, 20): first is 10
C4_Witness ==
    /\ pc = "done"
    /\ self.offset = 0
    /\ disk = << <<"A"," ","1"," ","5">>, <<"A"," ","1","0"," ","2","0">> >>
    /\ self.first = <<10>>
    /\ self.last = <<20>>

(***************************************************************************)
(* C5: if a non-empty, non-comment, non-compound line of the input does    *)
(* not split into exactly three fields, load() never gets past it: the run *)
(* ends in an error, D is never bound, and no output is written.           *)
(***************************************************************************)
C5_MalformedLineAborts ==
    (\E i \in 1..Len(disk) : Malformed(disk[i])) =>
      /\ pc \in {"start", "load", "error"}
      /\ DOMAIN fs = {}
      /\ ran = <<>>
      /\ stdout = <<>>
      /\ \A i \in 1..lineno : ~Malformed(disk[i])
      /\ (pc = "error" /\ Constructed) => err = "ValueError"

\* a two-field line failed after a domain had been put into the table
C5_Witness ==
    /\ pc = "error"
    /\ err = "ValueError"
    /\ Constructed
    /\ lineno = 1
    /\ Len(self.domain_order) = 1
    /\ disk[2] = <<"A"," ","1","0">>
    /\ DOMAIN fs = {}

(***************************************************************************)
(* C6: a compound line whose name is empty after the '@' makes load()      *)
(* fail; no compound with an empty name is ever put into the compound      *)
(* table.                                                                  *)
(***************************************************************************)
C6_EmptyCompoundNameRejected ==
    Constructed =>
      /\ <<>> \notin DOMAIN self.compounds.val
      /\ \A i \in 1..lineno : disk[i] # <<"@"," ","A">>

(***************************************************************************)
(* C7: after its three header lines the graph file is the pass for +0.5,   *)
(* one '&' line, the pass for -0.5; a pass is (first, 0), then for each    *)
(* emitted domain (start,0) (start,y) (end,y) (end,0), then (last, 0); the *)
(* emitted domains are those of the order sequence up to, not including,   *)
(* the first one whose start is below the start of the one before it (all  *)
(* of them when the starts increase).                                      *)
(***************************************************************************)
XvgRanges == [i \in 1..Len(self.domain_order) |-> self.domains.val[self.domain_order[i]]]

\* number of domains a pass emits
XvgEmitted ==
    CHOOSE k \in 1..Len(XvgRanges) :
        /\ \A i \in 2..k : XvgRanges[i][1] >= XvgRanges[i - 1][1]
        /\ k = Len(XvgRanges) \/ XvgRanges[k + 1][1] < XvgRanges[k][1]

XvgPass(y) ==
    << XvgPoint(self.first[1], 0) >>
      \o Concat([i \in 1..XvgEmitted |->
                   << XvgPoint(XvgRanges[i][1], 0), XvgPoint(XvgRanges[i][1], y),
                      XvgPoint(XvgRanges[i][2], y), XvgPoint(XvgRanges[i][2], 0) >>])
      \o << XvgPoint(self.last[1], 0) >>

XvgBody == SubSeq(fs[OutPath["xvgfilename"]], 4, Len(fs[OutPath["xvgfilename"]]))

\* C7: the graph file is two passes of rectangles, cut at the first decreasing start
C7_XvgPasses ==
    (Constructed /\ OutPath["xvgfilename"] \in DOMAIN fs) =>
      /\ XvgBody = XvgPass(1) \o << <<"&">> >> \o XvgPass(-1)
      /\ (\A i \in 2..Len(XvgRanges) : XvgRanges[i][1] > XvgRanges[i - 1][1])
           => Len(XvgBody) = 2 * (4 * Len(XvgRanges) + 2) + 1
      /\ (\E i \in 2..Len(XvgRanges) : XvgRanges[i][1] < XvgRanges[i - 1][1])
           => Len(XvgBody) < 2 * (4 * Len(XvgRanges) + 2) + 1

\* three domains, the third start below the second: two are emitted per pass
C7_Witness ==
    /\ pc = "done"
    /\ self.offset = 0
    /\ self.domain_order = << <<"A">>, <<"B">>, <<"C">> >>
    /\ XvgRanges = << <<10, 20>>, <<25, 30>>, <<1, 7>> >>
    /\ XvgEmitted = 2
    /\ Len(XvgBody) = 21

(***************************************************************************)
(* C8: _transform(mode, s) equals the simultaneous substitution of every   *)
(* '|', '&', '!' of s by the padded keyword of the mode, every other       *)
(* character kept in place ("A & B" gives "A  and  B" for vmd and          *)
(* "A  .and.  B" for charmm); any other mode raises an error and returns   *)
(* no string.                                                              *)
(***************************************************************************)
Keyword(mode, c) ==
    IF mode = "charmm"
    THEN CASE c = "|" -> <<" ",".","o","r","."," ">>
           [] c = "&" -> <<" ",".","a","n","d","."," ">>
           [] c = "!" -> <<" ",".","n","o","t","."," ">>
           [] OTHER   -> <<c>>
    ELSE CASE c = "|" -> <<" ","o","r"," ">>
           [] c = "&" -> <<" ","a","n","d"," ">>
           [] c = "!" -> <<" ","n","o","t"," ">>
           [] OTHER   -> <<c>>

\* C8: the chained replacements equal the simultaneous substitution
C8_TokenSubstitution ==
    ret # <<>> =>
      IF call.mode \in {"vmd", "pymol", "charmm"}
      THEN /\ ret[1].err = ""
           /\ ret[1].val = Concat([i \in 1..Len(call.s) |-> Keyword(call.mode, call.s[i])])
           /\ (call.s = <<"A"," ","&"," ","B">> /\ call.mode = "vmd")
                => ret[1].val = <<"A"," "," ","a","n","d"," "," ","B">>
           /\ (call.s = <<"A"," ","&"," ","B">> /\ call.mode = "charmm")
                => ret[1].val = <<"A"," "," ",".","a","n","d","."," "," ","B">>
      ELSE /\ ret[1].err = "ValueError"
           /\ ret[1].val = <<>>

\* a string with two tokens of one kind and one of another has been rewritten
C8_Witness ==
    /\ ret # <<>>
    /\ call.mode = "charmm"
    /\ call.s = <<"!","A","&","!","B">>
    /\ ret[1].err = ""
    /\ Len(ret[1].val) = 23

(***************************************************************************)
(* C9 as stated: at the end of a run each of the six writers has run if    *)
(* and only if its option was given on the command line, and with no       *)
(* output option given no writer has run.                                  *)
(***************************************************************************)
Ran(d) == \E i \in 1..Len(ran) : ran[i] = d

\* C9 (as stated): a writer has run iff its option was given
C9_WriterIffOptionGiven ==
    pc = "done" =>
      /\ \A d \in OutDests : Ran(d) <=> given[d] # <<>>
      /\ (\A d \in OutDests : given[d] = <<>>) => ran = <<>>

(***************************************************************************)
(* C9 amended: at the end of a run each of write_vmd, write_bendix,        *)
(* write_pymol, write_charmm, write_xvg has run if and only if its option  *)
(* was given with a non-empty file name; write() has run unless -f was     *)
(* given with an empty file name (without -f it writes to the default      *)
(* /dev/stdout), so a run with no output option has invoked write() and    *)
(* nothing else.  The writers run in the order -f, -t, -b, -p, -c, -x.     *)
(***************************************************************************)
\* C9 (amended): as stated, but for the default of -f and empty file names
C9_WriterIffOptionOrDefault ==
    pc = "done" =>
      /\ \A d \in OutDests \ {"filename"} :
            Ran(d) <=> (given[d] # <<>> /\ given[d][1] # <<>>)
      /\ Ran("filename") <=> given["filename"] # << <<>> >>
      /\ given["filename"] = <<>> =>
            /\ DevStdout \in DOMAIN fs
            /\ fs[DevStdout] = write(self, DevStdout).out
      /\ (\A d \in OutDests : given[d] = <<>>) => ran = <<"filename">>
      /\ \A p \in DOMAIN fs :
            \E d \in OutDests : Ran(d) /\ p = parse_args(given)[d][1]

\* a run without any output option has ended: write() ran, to /dev/stdout
C9_Witness ==
    /\ pc = "done"
    /\ \A d \in OutDests : given[d] = <<>>
    /\ ran = <<"filename">>
    /\ DOMAIN fs = {DevStdout}

(***************************************************************************)
(* C10: the writers leave the model as load() built it: at every point of  *)
(* the dispatch the object equals the freshly loaded one, and every file   *)
(* written holds what its writer produces from the freshly loaded model.   *)
(***************************************************************************)
Fresh == DomDef(args[1], disk, int(opts["offset"][1])).obj

WriterOutput(d, obj) ==
    CASE d = "filename"       -> write(obj, opts[d][1]).out
      [] d = "vmdfilename"    -> write_vmd(obj, opts[d][1]).out
      [] d = "bendixfilename" -> write_bendix(obj, opts[d][1]).out
      [] d = "pymolfilename"  -> write_pymol(obj, opts[d][1]).out
      [] d = "charmmfilename" -> write_charmm(obj, opts[d][1]).out
      [] d = "xvgfilename"    -> write_xvg(obj, opts[d][1]).out

\* C10: no writer changes the model, each output depends on the loaded model only
C10_WritersLeaveModel ==
    AfterLoad =>
      /\ self = Fresh
      /\ \A d \in OutDests : Ran(d) => fs[opts[d][1]] = WriterOutput(d, Fresh)

\* four writers have run, write_xvg after write_bendix
C10_Witness ==
    /\ pc = "done"
    /\ ran = <<"filename", "bendixfilename", "charmmfilename", "xvgfilename">>
    /\ Len(self.domain_order) = 2

====
